---- MODULE Spec2Model ----
(***************************************************************************)
(* Model of src/app.py, the Car MPG dashboard script.                      *)
(*                                                                         *)
(* The script is executed top to bottom once per browser event of a        *)
(* session.  load_data() is memoised process-wide by @st.cache_data, the   *)
(* three sidebar widgets keep their value per session between runs, and    *)
(* everything below line 46 is recomputed from the widget values of the    *)
(* run.                                                                    *)
(*                                                                         *)
(* Data representation.  A dataframe is a sequence of rows; a row is a     *)
(* record with the pandas index, the seven columns of mpg.csv and `na`,    *)
(* the set of columns whose cell is NaN.  Strings that the script          *)
(* transforms (origin) are sequences of one-character strings.  mpg,       *)
(* horsepower and weight are whole numbers, for which the float mean the   *)
(* script formats is exact wherever a rounding tie can occur (see          *)
(* RoundHalfEven).  A multiselect value is modelled as the set of its      *)
(* entries: the script only uses it through isin().                        *)
(***************************************************************************)
EXTENDS Integers, Sequences, FiniteSets

VARIABLES
    file,    \* the rows of mpg.csv, fixed for the life of the process
    cache,   \* the st.cache_data entry of load_data: [loaded, df]
    reads,   \* how many times pd.read_csv("mpg.csv") has been executed
    sess     \* per browser session: position, widget values, script locals, page

vars == <<file, cache, reads, sess>>

\* ------------------------------------------------------------------ bounds

\* Largest number of rows in mpg.csv that is explored.
MaxRows == 2

Sessions == {"s1", "s2"}

Columns == {"name", "origin", "cylinders", "model_year", "weight", "horsepower", "mpg"}

\* Rows mpg.csv is composed of.  A cell listed in `na` is empty in the file.
Pool ==
    << [name |-> "chevelle", origin |-> <<"u","s","a">>, cylinders |-> 8,
        model_year |-> 70, weight |-> 3504, horsepower |-> 130, mpg |-> 18, na |-> {}],
       [name |-> "corona", origin |-> <<"j","a","p","a","n">>, cylinders |-> 4,
        model_year |-> 71, weight |-> 2372, horsepower |-> 95, mpg |-> 24, na |-> {}],
       [name |-> "pinto", origin |-> <<"u","s","a">>, cylinders |-> 4,
        model_year |-> 71, weight |-> 2046, horsepower |-> 0, mpg |-> 25,
        na |-> {"horsepower"}],
       [name |-> "impala", origin |-> <<"U","S","A">>, cylinders |-> 8,
        model_year |-> 72, weight |-> 4274, horsepower |-> 165, mpg |-> 13, na |-> {}],
       [name |-> "fiat", origin |-> <<"e","u","r","o">>, cylinders |-> 4,
        model_year |-> 72, weight |-> 2189, horsepower |-> 70, mpg |-> 31, na |-> {}] >>

\* ------------------------------------------------------------------ helpers

RECURSIVE SeqOfSet(_)
\* The elements of a set of integers in ascending order.
SeqOfSet(S) ==
    IF S = {} THEN <<>>
    ELSE LET m == CHOOSE x \in S : \A y \in S : x <= y
         IN <<m>> \o SeqOfSet(S \ {m})

RECURSIVE SumSeq(_)
SumSeq(s) == IF s = <<>> THEN 0 ELSE Head(s) + SumSeq(Tail(s))

RECURSIVE GCD(_, _)
GCD(a, b) == IF b = 0 THEN a ELSE GCD(b, a % b)

Column(df, col) == [i \in 1..Len(df) |-> df[i][col]]

Values(df, col) == {df[i][col] : i \in 1..Len(df)}

Min(S) == CHOOSE x \in S : \A y \in S : x <= y
Max(S) == CHOOSE x \in S : \A y \in S : y <= x

\* ------------------------------------------------------------------ str.capitalize

LowerCase == <<"a", "e", "j", "n", "o", "p", "r", "s", "u">>
UpperCase == <<"A", "E", "J", "N", "O", "P", "R", "S", "U">>

upper(c) ==
    IF \E i \in 1..Len(LowerCase) : LowerCase[i] = c
    THEN UpperCase[CHOOSE i \in 1..Len(LowerCase) : LowerCase[i] = c]
    ELSE c

lower(c) ==
    IF \E i \in 1..Len(UpperCase) : UpperCase[i] = c
    THEN LowerCase[CHOOSE i \in 1..Len(UpperCase) : UpperCase[i] = c]
    ELSE c

\* A mutant of capitalize: upper-cases the whole string.
capitalize_upper(s) == [i \in 1..Len(s) |-> upper(s[i])]

\* str.capitalize(): first character upper-cased, the rest lower-cased.
capitalize(s) == [i \in 1..Len(s) |-> IF i = 1 THEN upper(s[i]) ELSE lower(s[i])]

\* ------------------------------------------------------------------ load_data

\* pd.read_csv: the rows of the file with the default RangeIndex 0..n-1.
read_csv(f) ==
    [i \in 1..Len(f) |->
        [index |-> i - 1, name |-> f[i].name, origin |-> f[i].origin,
         cylinders |-> f[i].cylinders, model_year |-> f[i].model_year,
         weight |-> f[i].weight, horsepower |-> f[i].horsepower,
         mpg |-> f[i].mpg, na |-> f[i].na]]

\* DataFrame.dropna(): the rows without a NaN cell, index kept.
dropna(df) == LET complete(r) == r.na = {} IN SelectSeq(df, complete)

\* A mutant of normalize: the year offset is forgotten.
normalize_no_offset(df) ==
    [i \in 1..Len(df) |-> [df[i] EXCEPT !.origin = capitalize(df[i].origin)]]

\* Lines 11-12: origin capitalised, model_year + 1900.
normalize(df) ==
    [i \in 1..Len(df) |->
        [df[i] EXCEPT !.origin = capitalize(df[i].origin),
                      !.model_year = 1900 + df[i].model_year]]

\* The body of load_data.
load_data(f) == normalize(dropna(read_csv(f)))

NoCache == [loaded |-> FALSE, df |-> <<>>]

\* A mutant of the memoisation: the decorator is missing.
cache_miss_always(c) == TRUE

\* @st.cache_data: whether a call of load_data() executes its body.
cache_miss(c) == ~c.loaded

\* Line 15, df = load_data() under @st.cache_data: the value the call returns,
\* the cache entry after it, and whether mpg.csv was read.
cached_load_data(c, f) ==
    IF cache_miss(c)
    THEN [value |-> load_data(f), cache |-> [loaded |-> TRUE, df |-> load_data(f)],
          read |-> 1]
    ELSE [value |-> c.df, cache |-> c, read |-> 0]

\* ------------------------------------------------------------------ sidebar widgets

\* Lines 25-26: options and default of the origin multiselect.
origin_options(df) == Values(df, "origin")

\* A mutant of the default: nothing is preselected.
origin_default_none(df) == {}

origin_default(df) == Values(df, "origin")

\* Lines 31-32: options and default of the cylinders multiselect.
cylinder_options(df) == Values(df, "cylinders")

cylinder_default(df) == Values(df, "cylinders")

\* A mutant of the slider bounds: the years of the page's introduction (line 18).
slider_bounds_fixed(df) == <<1970, 1982>>

\* Lines 37-38: min_value and max_value of the slider.
slider_bounds(df) ==
    <<Min(Values(df, "model_year")), Max(Values(df, "model_year"))>>

\* Line 39: the slider's initial value.
slider_default(df) ==
    <<Min(Values(df, "model_year")), Max(Values(df, "model_year"))>>

\* The (low, high) pairs a range slider with these bounds can be set to.
slider_values(df) ==
    {<<lo, hi>> \in (slider_bounds(df)[1]..slider_bounds(df)[2])
                    \X (slider_bounds(df)[1]..slider_bounds(df)[2]) : lo <= hi}

\* ------------------------------------------------------------------ filter

\* A mutant of the filter: the upper year bound is exclusive.
Filter_exclusive(df, origins, cylinders, year_range) ==
    LET keep(r) == /\ r.origin \in origins
                   /\ r.cylinders \in cylinders
                   /\ year_range[1] <= r.model_year
                   /\ r.model_year < year_range[2]
    IN SelectSeq(df, keep)

\* A mutant of the filter: an empty selection means no restriction.
Filter_empty_is_all(df, origins, cylinders, year_range) ==
    LET keep(r) == /\ (origins = {} \/ r.origin \in origins)
                   /\ (cylinders = {} \/ r.cylinders \in cylinders)
                   /\ year_range[1] <= r.model_year
                   /\ r.model_year <= year_range[2]
    IN SelectSeq(df, keep)

\* Lines 46-50: isin(origins) & isin(cylinders) & between(*year_range).
Filter(df, origins, cylinders, year_range) ==
    LET keep(r) == /\ r.origin \in origins
                   /\ r.cylinders \in cylinders
                   /\ year_range[1] <= r.model_year
                   /\ r.model_year <= year_range[2]
    IN SelectSeq(df, keep)

\* ------------------------------------------------------------------ aggregates

\* Rounding of num/den (den > 0) to the nearest integer, ties to the even one:
\* what the format specs .1f and .0f do to a float.  Exact for the mean of
\* fewer than 20 whole numbers: a tie then has the form k/4 or k/2, which the
\* float sum and division represent exactly.
RoundHalfEven(num, den) ==
    LET q == num \div den
        r == num % den
    IN IF 2 * r < den THEN q
       ELSE IF 2 * r > den THEN q + 1
       ELSE IF q % 2 = 0 THEN q ELSE q + 1

\* The text of a formatted float: "nan", or a decimal number held as its
\* digits scaled by 10^places.
NaNText == [nan |-> TRUE, scaled |-> 0]
NumberText(n) == [nan |-> FALSE, scaled |-> n]

\* Line 60 and line 62: f"{series.mean():.<places>f}"; the mean of an empty
\* series is NaN, which formats as "nan".
format_mean(series, scale) ==
    IF Len(series) = 0 THEN NaNText
    ELSE NumberText(RoundHalfEven(scale * SumSeq(series), Len(series)))

\* Line 61: f"{series.max():.1f}"; the max of an empty series is NaN.
format_max(series, scale) ==
    IF Len(series) = 0 THEN NaNText
    ELSE NumberText(scale * Max({series[i] : i \in 1..Len(series)}))

\* The float mean of a non-empty series, as a fraction in lowest terms.
mean(series) ==
    LET s == SumSeq(series)
        n == Len(series)
        g == GCD(s, n)
    IN <<s \div g, n \div g>>

\* Line 68: groupby(["model_year", "origin"])["mpg"].mean().reset_index(),
\* as the set of its rows.
trend(filtered) ==
    {[model_year |-> k[1], origin |-> k[2],
      mpg |-> LET grp(r) == r.model_year = k[1] /\ r.origin = k[2]
              IN mean(Column(SelectSeq(filtered, grp), "mpg"))] :
        k \in {<<filtered[i].model_year, filtered[i].origin>> : i \in 1..Len(filtered)}}

\* Line 77: groupby("cylinders")["mpg"].mean().reset_index(), as the set of its rows.
avg_cyl(filtered) ==
    {[cylinders |-> k,
      mpg |-> LET grp(r) == r.cylinders = k
              IN mean(Column(SelectSeq(filtered, grp), "mpg"))] :
        k \in Values(filtered, "cylinders")}

\* Line 118: reset_index(drop=True).
reset_index(df) == [i \in 1..Len(df) |-> [df[i] EXCEPT !.index = i - 1]]

Header == <<"name", "origin", "cylinders", "model_year", "weight", "horsepower", "mpg">>

\* Line 120: to_csv(index=False): the header line, then one line of cells per row.
to_csv(df) ==
    <<Header>> \o
    [i \in 1..Len(df) |->
        <<df[i].name, df[i].origin, df[i].cylinders, df[i].model_year,
          df[i].weight, df[i].horsepower, df[i].mpg>>]

\* What a session's page shows before the script has drawn anything.
BlankPage ==
    [rendered |-> FALSE, caption |-> <<0, 0>>, avg_mpg |-> NaNText, best_mpg |-> NaNText,
     avg_hp |-> NaNText, total |-> 0, trend |-> {}, avg_cyl |-> {}, box |-> <<>>,
     scatter |-> <<>>, table |-> <<>>, csv |-> <<>>]

\* A mutant of the rendering: the export is taken from df, not from filtered.
Render_export_all(filtered, df) ==
    [rendered |-> TRUE,
     caption |-> <<Len(filtered), Len(df)>>,
     avg_mpg |-> format_mean(Column(filtered, "mpg"), 10),
     best_mpg |-> format_max(Column(filtered, "mpg"), 10),
     avg_hp |-> format_mean(Column(filtered, "horsepower"), 1),
     total |-> Len(filtered),
     trend |-> trend(filtered),
     avg_cyl |-> avg_cyl(filtered),
     box |-> filtered,
     scatter |-> filtered,
     table |-> reset_index(filtered),
     csv |-> to_csv(df)]

\* Lines 52-121: everything the script draws below the filter.
Render(filtered, df) ==
    [rendered |-> TRUE,
     caption |-> <<Len(filtered), Len(df)>>,
     avg_mpg |-> format_mean(Column(filtered, "mpg"), 10),
     best_mpg |-> format_max(Column(filtered, "mpg"), 10),
     avg_hp |-> format_mean(Column(filtered, "horsepower"), 1),
     total |-> Len(filtered),
     trend |-> trend(filtered),
     avg_cyl |-> avg_cyl(filtered),
     box |-> filtered,
     scatter |-> filtered,
     table |-> reset_index(filtered),
     csv |-> to_csv(filtered)]

\* ------------------------------------------------------------------ one script run

NewSession ==
    [pc |-> "new", origins |-> {}, cylinders |-> {}, year_range |-> <<0, 0>>,
     df |-> <<>>, filtered |-> <<>>, page |-> BlankPage]

\* One execution of the script (lines 15-121) in a session whose record is
\* `old`, with df the value load_data() returned, w the widget values the
\* browser sent (ignored on the first run, where the defaults apply) and
\* button whether "Reset Filters" was clicked.
\*   - an empty df makes int(df["model_year"].min()) raise at line 37: the
\*     two multiselects exist (without options), nothing else is drawn;
\*   - a clicked button ends the run at line 43 with a rerun request: the
\*     page keeps the elements of the previous run;
\*   - otherwise the run reaches the end, pc = "idle".
Script(old, df, w, button) ==
    IF df = <<>>
    THEN [NewSession EXCEPT !.pc = "error"]
    ELSE LET first == old.pc = "new"
             origins == IF first THEN origin_default(df) ELSE w.origins
             cylinders == IF first THEN cylinder_default(df) ELSE w.cylinders
             year_range == IF first THEN slider_default(df) ELSE w.year_range
             filtered == Filter(df, origins, cylinders, year_range)
         IN IF button
            THEN [old EXCEPT !.pc = "rerun", !.origins = origins,
                             !.cylinders = cylinders, !.year_range = year_range,
                             !.df = df]
            ELSE [pc |-> "idle", origins |-> origins, cylinders |-> cylinders,
                  year_range |-> year_range, df |-> df, filtered |-> filtered,
                  page |-> Render(filtered, df)]

\* The widget values a session's browser holds.
Widgets(s) ==
    [origins |-> sess[s].origins, cylinders |-> sess[s].cylinders,
     year_range |-> sess[s].year_range]

\* A mutant of the session store: one widget state for the whole process.
store_shared(ss, s, rec) ==
    [t \in DOMAIN ss |-> IF t = s \/ ss[t].pc = "idle" THEN rec ELSE ss[t]]

\* Widget values and script locals belong to the session the run is for.
store(ss, s, rec) == [ss EXCEPT ![s] = rec]

\* A script run of session s: load_data() through the cache, then the script.
Run(s, w, button) ==
    LET l == cached_load_data(cache, file)
    IN /\ cache' = l.cache
       /\ reads' = reads + l.read
       /\ sess' = store(sess, s, Script(sess[s], l.value, w, button))
       /\ UNCHANGED file

\* ------------------------------------------------------------------ events

\* A browser opens the page: first run, widgets at their defaults.
Connect(s) ==
    /\ sess[s].pc = "new"
    /\ Run(s, Widgets(s), FALSE)

\* The user changes the origin multiselect: any other subset of its options.
SelectOrigins(s) ==
    /\ sess[s].pc = "idle"
    /\ \E sel \in SUBSET origin_options(sess[s].df) :
          /\ sel # sess[s].origins
          /\ Run(s, [Widgets(s) EXCEPT !.origins = sel], FALSE)

\* The user changes the cylinders multiselect: any other subset of its options.
SelectCylinders(s) ==
    /\ sess[s].pc = "idle"
    /\ \E sel \in SUBSET cylinder_options(sess[s].df) :
          /\ sel # sess[s].cylinders
          /\ Run(s, [Widgets(s) EXCEPT !.cylinders = sel], FALSE)

\* The user drags the year slider: any other range within its bounds.
SlideYears(s) ==
    /\ sess[s].pc = "idle"
    /\ \E rng \in slider_values(sess[s].df) :
          /\ rng # sess[s].year_range
          /\ Run(s, [Widgets(s) EXCEPT !.year_range = rng], FALSE)

\* The user clicks "Reset Filters": a run in which the button returns True.
PressReset(s) ==
    /\ sess[s].pc = "idle"
    /\ Run(s, Widgets(s), TRUE)

\* The run st.rerun() asked for: the widgets keep the values they had.
Rerun(s) ==
    /\ sess[s].pc = "rerun"
    /\ Run(s, Widgets(s), FALSE)

\* ------------------------------------------------------------------ specification

RECURSIVE Subsets(_, _)
\* The subsets of S with at most n elements.
Subsets(S, n) ==
    IF n = 0 \/ S = {} THEN {{}}
    ELSE LET x == CHOOSE y \in S : TRUE
         IN Subsets(S \ {x}, n) \cup {T \cup {x} : T \in Subsets(S \ {x}, n - 1)}

\* The rows of Pool at the positions S, in Pool's order.
PoolFile(S) == LET idx == SeqOfSet(S) IN [k \in 1..Len(idx) |-> Pool[idx[k]]]

Files == {PoolFile(S) : S \in Subsets(1..Len(Pool), MaxRows)}

Init ==
    /\ file \in Files
    /\ cache = NoCache
    /\ reads = 0
    /\ sess = [s \in Sessions |-> NewSession]

Next ==
    \E s \in Sessions :
        \/ Connect(s)
        \/ SelectOrigins(s)
        \/ SelectCylinders(s)
        \/ SlideYears(s)
        \/ PressReset(s)
        \/ Rerun(s)

Spec == Init /\ [][Next]_vars

\* ------------------------------------------------------------------ properties

\* Sessions whose last run reached the end of the script.
Idle == {s \in Sessions : sess[s].pc = "idle"}

\* The three predicates of the filter, for a row and a session's widget values.
Selected(r, w) ==
    /\ r.origin \in w.origins
    /\ r.cylinders \in w.cylinders
    /\ w.year_range[1] <= r.model_year
    /\ r.model_year <= w.year_range[2]

\* All origins, all cylinder values and the full year range of dataset d.
AllSelected(w, d) ==
    /\ w.origins = {d[i].origin : i \in 1..Len(d)}
    /\ w.cylinders = {d[i].cylinders : i \in 1..Len(d)}
    /\ Len(d) > 0
    /\ \A i \in 1..Len(d) : w.year_range[1] <= d[i].model_year
                            /\ d[i].model_year <= w.year_range[2]
    /\ \E i \in 1..Len(d) : w.year_range[1] = d[i].model_year
    /\ \E i \in 1..Len(d) : w.year_range[2] = d[i].model_year

\* C1: in every session whose run has completed, the filtered view holds
\* exactly the rows of the loaded dataset whose origin and cylinders are
\* selected and whose model_year lies in the closed year range: nothing else,
\* nothing missing, nothing twice.
C1_FilterExact ==
    \A s \in Idle :
        LET v == sess[s].filtered
            d == cache.df
        IN /\ \A j \in 1..Len(v) :
                 \E i \in 1..Len(d) : d[i] = v[j] /\ Selected(d[i], sess[s])
           /\ \A i \in 1..Len(d) :
                 Selected(d[i], sess[s]) => \E j \in 1..Len(v) : v[j] = d[i]
           /\ Len(v) = Cardinality({i \in 1..Len(d) : Selected(d[i], sess[s])})

\* C1 witness: a view that keeps a row lying on both ends of the year range
\* and leaves another row out.
C1_Witness ==
    \E s \in Idle :
        /\ Len(sess[s].filtered) >= 1
        /\ Len(sess[s].filtered) < Len(cache.df)
        /\ sess[s].year_range[1] = sess[s].year_range[2]
        /\ sess[s].filtered[1].model_year = sess[s].year_range[2]

\* C2: the first run of a session leaves all origins, all cylinder values and
\* the full year range selected, and whenever a completed run had exactly
\* those values its view is the whole dataset and the caption reads n of n.
C2_DefaultsShowAll ==
    [][\A s \in Sessions :
          sess'[s].pc = "idle" =>
             /\ sess[s].pc = "new" => AllSelected(sess'[s], cache'.df)
             /\ AllSelected(sess'[s], cache'.df) =>
                   /\ sess'[s].filtered = cache'.df
                   /\ sess'[s].page.caption = <<Len(cache'.df), Len(cache'.df)>>]_vars

\* C2 witness: a session on its defaults showing a dataset of several rows.
C2_Witness ==
    \E s \in Idle :
        /\ Len(cache.df) >= 2
        /\ AllSelected(sess[s], cache.df)
        /\ sess[s].page.caption = <<Len(cache.df), Len(cache.df)>>

\* C3: with no origin selected or no cylinder value selected the view is
\* empty and the counts are 0, whatever the other two widgets hold.
C3_EmptySelectionIsEmpty ==
    \A s \in Idle :
        (sess[s].origins = {} \/ sess[s].cylinders = {}) =>
            /\ sess[s].filtered = <<>>
            /\ sess[s].page.total = 0
            /\ sess[s].page.caption[1] = 0

\* C3 witness: no origin selected while every cylinder value and year is.
C3_Witness ==
    \E s \in Idle :
        /\ Len(sess[s].df) >= 1
        /\ sess[s].origins = {}
        /\ sess[s].cylinders = {sess[s].df[i].cylinders : i \in 1..Len(sess[s].df)}
        /\ \A i \in 1..Len(sess[s].df) :
              /\ sess[s].year_range[1] <= sess[s].df[i].model_year
              /\ sess[s].df[i].model_year <= sess[s].year_range[2]
        /\ sess[s].page.total = 0

\* C4: the run that follows a click on "Reset Filters" has all origins, all
\* cylinder values and the full year range selected and shows the whole
\* dataset.
C4_ResetRestoresInitial ==
    [][\A s \in Sessions :
          (sess[s].pc = "rerun" /\ sess'[s].pc = "idle") =>
             /\ AllSelected(sess'[s], cache'.df)
             /\ sess'[s].filtered = cache'.df]_vars

\* C5: when the view is empty, none of the three metrics reads "nan".
C5_EmptyViewShowsPlaceholder ==
    \A s \in Idle :
        sess[s].filtered = <<>> =>
            /\ ~sess[s].page.avg_mpg.nan
            /\ ~sess[s].page.best_mpg.nan
            /\ ~sess[s].page.avg_hp.nan

\* out is the capitalised form of raw.
IsCapitalized(raw, out) ==
    /\ Len(out) = Len(raw)
    /\ \A i \in 1..Len(raw) : out[i] = IF i = 1 THEN upper(raw[i]) ELSE lower(raw[i])

\* C6: the loaded dataset is, in file order, the rows of mpg.csv without an
\* empty cell, each with origin capitalised and model_year + 1900 and every
\* other column as in the file; no loaded row has a missing cell; "usa", 70
\* loads as "Usa", 1970.
C6_LoadNormalizes ==
    cache.loaded =>
        LET d == cache.df
            idx == SeqOfSet({i \in 1..Len(file) : file[i].na = {}})
        IN /\ Len(d) = Len(idx)
           /\ \A k \in 1..Len(d) :
                 LET raw == file[idx[k]]
                 IN /\ d[k].na = {}
                    /\ IsCapitalized(raw.origin, d[k].origin)
                    /\ d[k].model_year = raw.model_year + 1900
                    /\ \A c \in Columns \ {"origin", "model_year"} : d[k][c] = raw[c]
                    /\ (raw.origin = <<"u","s","a">> /\ raw.model_year = 70) =>
                          (d[k].origin = <<"U","s","a">> /\ d[k].model_year = 1970)
                    /\ raw.origin = <<"U","S","A">> => d[k].origin = <<"U","s","a">>

\* C6 witness: a file with an incomplete row has been loaded, and the
\* dataset holds the "usa", 70 row as "Usa", 1970.
C6_Witness ==
    /\ cache.loaded
    /\ \E i \in 1..Len(file) : file[i].na # {}
    /\ \E i \in 1..Len(file) : file[i].origin = <<"u","s","a">> /\ file[i].model_year = 70
    /\ \E k \in 1..Len(cache.df) :
          cache.df[k].origin = <<"U","s","a">> /\ cache.df[k].model_year = 1970

\* C7: mpg.csv is read at most once; once the cache holds the dataset no run
\* reads the file or changes the entry, and every run's df is that dataset,
\* with years normalised once (1900 + a two-digit year).
C7_ReadOnce ==
    [][/\ reads' <= 1
       /\ cache.loaded => (cache' = cache /\ reads' = reads)
       /\ \A s \in Sessions :
             sess'[s].pc # "new" =>
                /\ sess'[s].df = cache'.df
                /\ \A i \in 1..Len(sess'[s].df) :
                      \E j \in 1..Len(file) :
                         sess'[s].df[i].model_year = file[j].model_year + 1900]_vars

\* C7 witness: one read has served both sessions through several runs.
C7_Witness ==
    /\ reads = 1
    /\ Idle = Sessions
    /\ \A s \in Sessions : Len(sess[s].df) >= 1 /\ ~AllSelected(sess[s], cache.df)

\* C8: the selected origins and cylinder values are values of the dataset,
\* and the year range is ordered and lies within the dataset's years.
C8_StateWithinDomain ==
    \A s \in Sessions :
        sess[s].pc \in {"idle", "rerun"} =>
            LET d == cache.df
            IN /\ sess[s].origins \subseteq {d[i].origin : i \in 1..Len(d)}
               /\ sess[s].cylinders \subseteq {d[i].cylinders : i \in 1..Len(d)}
               /\ sess[s].year_range[1] <= sess[s].year_range[2]
               /\ \E i \in 1..Len(d) : d[i].model_year <= sess[s].year_range[1]
               /\ \E i \in 1..Len(d) : sess[s].year_range[2] <= d[i].model_year

\* C8 witness: after a reset click, a session with the slider moved to the
\* dataset's last year and a proper subset of the origins selected.
C8_Witness ==
    \E s \in Sessions :
        /\ sess[s].pc = "rerun"
        /\ \E i \in 1..Len(cache.df) : cache.df[i].model_year < sess[s].year_range[1]
        /\ \A i \in 1..Len(cache.df) : cache.df[i].model_year <= sess[s].year_range[1]
        /\ sess[s].origins # {}
        /\ sess[s].origins # {cache.df[i].origin : i \in 1..Len(cache.df)}

\* n/d (d > 0) rounded to the nearest integer is m.
Nearest(m, n, d) == 2 * n - d <= 2 * m * d /\ 2 * m * d <= 2 * n + d

\* The text t is "nan" for an empty series and otherwise the mean of the
\* series rounded to the nearest multiple of 1/scale.
ShowsMean(t, series, scale) ==
    IF Len(series) = 0 THEN t.nan
    ELSE ~t.nan /\ Nearest(t.scaled, scale * SumSeq(series), Len(series))

C10_SessionsIndependent ==
    [][/\ \A s, t \in Sessions :
             (s # t /\ sess'[s] # sess[s]) => sess'[t] = sess[t]
       /\ cache.loaded => cache'.df = cache.df
       /\ \A s \in Sessions :
             sess'[s].pc = "idle" =>
                LET keep(r) == Selected(r, sess'[s])
                IN /\ sess'[s].filtered = SelectSeq(cache'.df, keep)
                   /\ sess'[s].page.total = Len(SelectSeq(cache'.df, keep))]_vars

\* C10 witness: two sessions on the same dataset with different selections
\* and different views.
C10_Witness ==
    /\ Idle = Sessions
    /\ \E s, t \in Sessions :
          /\ sess[s].origins # sess[t].origins
          /\ sess[s].year_range # sess[t].year_range
          /\ Len(sess[s].filtered) = 1
          /\ Len(sess[t].filtered) = 2

====
